---- MODULE Spec2Model ----
(***************************************************************************)
(* Model of the IPFS directory synchronizer of ipfs_factory                *)
(* (src/src/ipfs.rs): IPFSObject::get, IPFSObject::add_link, ipfs_add and  *)
(* the recursive patch_root_object, run against a content-addressed store. *)
(*                                                                         *)
(* A content address (cid) is modelled by the object it denotes: two cids  *)
(* are equal iff the objects are equal.  An object is a record             *)
(*   [data |-> <file bytes, or "dir">, links |-> <function name -> cid>].  *)
(* Link names are unique inside one object, so the Vec<IPFSLink> of the    *)
(* code is a function from link names to targets and `find` is a lookup.   *)
(***************************************************************************)
EXTENDS Integers, Sequences, FiniteSets, TLC

(***************************************************************************)
(* Bounds of the model.                                                    *)
(***************************************************************************)
\* the local tree and the tree the remote object was published from differ
\* in at most MaxChanges entries
MaxChanges == 2
\* number of consecutive sync runs (each starts from the address the
\* previous one returned)
MaxRuns == 2
\* number of entries of the top-level directory
MaxEntries == 2
\* largest size of a file, in bytes
MaxBytes == 2

\* file contents
Data == {"d1", "d2"}

(***************************************************************************)
(* File names.  "xFF" and "xFE" stand for file names that are not valid    *)
(* UTF-8 (the single bytes 0xFF and 0xFE); every other name is valid       *)
(* UTF-8.  "uFFFD" is the string made of U+FFFD REPLACEMENT CHARACTER.     *)
(***************************************************************************)
NoExt == "<none>"

\* Path::extension() of the names of the model
Extension(name) ==
    CASE name = "a.txt" -> "txt"
      [] name = "c.txt" -> "txt"
      [] name = "m.ogg" -> "ogg"
      [] OTHER -> NoExt

\* OsStr::to_string_lossy(): invalid UTF-8 becomes U+FFFD
ToStringLossy(name) == IF name \in {"xFF", "xFE"} THEN "uFFFD" ELSE name

(***************************************************************************)
(* Local filesystem entries.                                               *)
(***************************************************************************)
NoEntries == [n \in {} |-> 0]
NoLinks == [n \in {} |-> 0]

File(d) == [kind |-> "file", data |-> d, entries |-> NoEntries]
Dir(es) == [kind |-> "dir", data |-> "", entries |-> es]
\* a dangling symlink: is_file() and is_dir() are false, exists() is false
Dangling == [kind |-> "dangling", data |-> "", entries |-> NoEntries]
Absent == [kind |-> "absent", data |-> "", entries |-> NoEntries]

IsFile(e) == e.kind = "file"
IsDir(e) == e.kind = "dir"

\* the directory whose entries are the non-absent values of f
MkDir(f) == [n \in {m \in DOMAIN f : f[m] # Absent} |-> f[n]]

SubDirs == {MkDir([n \in {"a.txt"} |-> a]) : a \in {Absent} \cup {File(d) : d \in Data}}

\* the file names of the top-level directory
Names == {"a.txt", "c.txt", "m.ogg", "xFF", "xFE", "sub"}

AllTrees ==
    {MkDir([n \in Names |->
              CASE n = "a.txt" -> a
                [] n = "c.txt" -> c
                [] n = "m.ogg" -> m
                [] n = "xFF" -> x
                [] n = "xFE" -> y
                [] n = "sub" -> s]) :
        a \in {Absent} \cup {File(d) : d \in Data},
        c \in {Absent, File("d1"), Dangling},
        m \in {Absent, Dir(MkDir([n \in {"a.txt"} |-> File("d1")]))}
                \cup {File(d) : d \in Data},
        x \in {Absent, File("d1")},
        y \in {Absent, File("d2")},
        s \in {Absent, File("d1")} \cup {Dir(es) : es \in SubDirs}}

LocalTrees == {t \in AllTrees : Cardinality(DOMAIN t) <= MaxEntries}

\* trees the remote object was published from: every entry became a link,
\* and no two entries became links of the same name
PublishedTrees ==
    {t \in LocalTrees :
        /\ \A n \in DOMAIN t : t[n] # Dangling
        /\ \A n, m \in DOMAIN t : ToStringLossy(n) = ToStringLossy(m) => n = m}

RECURSIVE Diff(_, _)
\* number of entries in which two directories differ
Diff(t1, t2) ==
    LET names == DOMAIN t1 \cup DOMAIN t2
        D(n) == IF n \notin DOMAIN t1 \/ n \notin DOMAIN t2 THEN 1
                ELSE IF t1[n] = t2[n] THEN 0
                ELSE IF IsDir(t1[n]) /\ IsDir(t2[n])
                     THEN Diff(t1[n].entries, t2[n].entries)
                     ELSE 1
        RECURSIVE Sum(_)
        Sum(S) == IF S = {} THEN 0
                  ELSE LET n == CHOOSE n \in S : TRUE IN D(n) + Sum(S \ {n})
    IN Sum(names)

(***************************************************************************)
(* The content store (the ipfs daemon behind the `ipfs` command).          *)
(***************************************************************************)
FileObj(d) == [data |-> d, links |-> NoLinks]

RECURSIVE TreeObj(_)
\* the object `ipfs add -r` makes of a directory
TreeObj(es) ==
    LET up == {n \in DOMAIN es : IsFile(es[n]) \/ IsDir(es[n])}
        src(ln) == CHOOSE n \in up : ToStringLossy(n) = ln
    IN [data |-> "dir",
        links |-> [ln \in {ToStringLossy(n) : n \in up} |->
                     IF IsFile(es[src(ln)]) THEN FileObj(es[src(ln)].data)
                     ELSE TreeObj(es[src(ln)].entries)]]

RECURSIVE Reach(_)
\* an object and everything it links to
Reach(o) == {o} \cup UNION {Reach(o.links[n]) : n \in DOMAIN o.links}

\* `ipfs object patch add-link parent name child`
PatchedObj(parent, name, child) ==
    [data |-> parent.data,
     links |-> [n \in DOMAIN parent.links \cup {name} |->
                  IF n = name THEN child ELSE parent.links[n]]]


(***************************************************************************)
(* State.                                                                  *)
(***************************************************************************)
VARIABLES
    local_tree,  \* the local directory given to the top-level call
    root0,       \* the root_hash the current run was started with
    store,       \* the objects the content store holds
    store0,      \* the store when the current run started
    stack,       \* the frames of patch_root_object, innermost last
    status,      \* "running", "done" (Ok returned) or "failed" (Err returned)
    result,      \* the cid the top-level call returned
    log,         \* the `ipfs` commands of the current run, in order
    warnings,    \* the warnings printed by the current run
    run,         \* number of the current run
    past,        \* the finished runs before the current one
    prober,      \* the state of prime_public_gateways
    track        \* the state of Track::from_inner

vars == <<local_tree, root0, store, store0, stack, status, result, log,
          warnings, run, past, prober, track>>

NoCid == [data |-> "<none>", links |-> NoLinks]
NoObj == [links |-> NoLinks, hash |-> NoCid]
NoName == "<none>"

\* prime_public_gateways is not running
ProberIdle ==
    [pc |-> "idle", root_hash |-> NoCid, ipfs_root |-> NoObj, gw |-> 0,
     link |-> 0, requests |-> <<>>]

\* Option::None of a file's metadata, of the cached track, of the result
NoMetadata == [ok |-> FALSE, len |-> 0]
NoTrack == [some |-> FALSE, flac_bytes |-> 0, ogg_bytes |-> 0, mp3_bytes |-> 0,
            media_info |-> "<none>"]

\* Track::from_inner is not running
TrackIdle ==
    [pc |-> "idle", ondisk_root |-> FALSE, mp3 |-> FALSE,
     flac_md |-> NoMetadata, ogg_md |-> NoMetadata, mp3_md |-> NoMetadata,
     cache |-> NoTrack, result |-> NoTrack]

\* one `ipfs` command: op is "get" (object get), "add" or "patch"
\* (object patch add-link)
Call(op, cid, name, child, path, folder, ok) ==
    [op |-> op, cid |-> cid, name |-> name, child |-> child, path |-> path,
     folder |-> folder, ok |-> ok]

RECURSIVE Lookup(_, _)
\* the entry at a path below a directory
Lookup(es, path) ==
    IF path = <<>> THEN Dir(es)
    ELSE IF Head(path) \notin DOMAIN es THEN Absent
    ELSE IF Len(path) = 1 THEN es[Head(path)]
    ELSE IF IsDir(es[Head(path)]) THEN Lookup(es[Head(path)].entries, Tail(path))
    ELSE Absent

\* Path::exists(), which follows symlinks
Exists(path) == Lookup(local_tree, path).kind \in {"file", "dir"}

(***************************************************************************)
(* The store client.                                                       *)
(***************************************************************************)
\* IPFSObject::get that leaves the hash of the object unset
IPFSObject_get_unbound(hash) == [links |-> hash.links, hash |-> NoCid]

\* IPFSObject::get: the links of the object, bound to the hash asked for
IPFSObject_get(hash) == [links |-> hash.links, hash |-> hash]

\* IPFSObject::cid
Cid(obj) == obj.hash

\* ipfs_add that only computes the address (`ipfs add --only-hash`): nothing
\* is put into the store
ipfs_add_only_hash(path, entry, is_folder, ok, st, lg) ==
    LET new_cid == IF IsFile(entry) THEN FileObj(entry.data)
                   ELSE TreeObj(entry.entries)
    IN IF ok
       THEN [ok |-> TRUE, cid |-> new_cid, store |-> st,
             log |-> Append(lg, Call("add", new_cid, NoName, NoCid, path, is_folder, TRUE))]
       ELSE [ok |-> FALSE, cid |-> NoCid, store |-> st,
             log |-> Append(lg, Call("add", NoCid, NoName, NoCid, path, is_folder, FALSE))]

\* ipfs_add: `ipfs add --pin=false -Q path [-r]`; -r changes nothing for a
\* file, and makes the whole subtree of a directory
ipfs_add(path, entry, is_folder, ok, st, lg) ==
    LET new_cid == IF IsFile(entry) THEN FileObj(entry.data)
                   ELSE TreeObj(entry.entries)
    IN IF ok
       THEN [ok |-> TRUE, cid |-> new_cid, store |-> st \cup Reach(new_cid),
             log |-> Append(lg, Call("add", new_cid, NoName, NoCid, path, is_folder, TRUE))]
       ELSE [ok |-> FALSE, cid |-> NoCid, store |-> st,
             log |-> Append(lg, Call("add", NoCid, NoName, NoCid, path, is_folder, FALSE))]

\* IPFSObject::add_link whose result is dropped: the caller keeps the object
\* it had
add_link_discarded(obj, link_name, link_hash, o, dir, st, lg) ==
    LET new_cid == PatchedObj(obj.hash, link_name, link_hash)
        patch(ok) == Call("patch", obj.hash, link_name, link_hash, dir, FALSE, ok)
        get(ok) == Call("get", new_cid, NoName, NoCid, dir, FALSE, ok)
    IN CASE o = "patch_fails" ->
              [ok |-> FALSE, obj |-> NoObj, store |-> st,
               log |-> Append(lg, patch(FALSE))]
         [] o = "get_fails" ->
              [ok |-> FALSE, obj |-> NoObj, store |-> st \cup {new_cid},
               log |-> Append(Append(lg, patch(TRUE)), get(FALSE))]
         [] OTHER ->
              [ok |-> TRUE, obj |-> obj, store |-> st \cup {new_cid},
               log |-> Append(Append(lg, patch(TRUE)), get(TRUE))]

\* IPFSObject::add_link: the patch command, then IPFSObject::get of the new
\* hash.  o is "ok", "patch_fails" or "get_fails"; dir is the directory of
\* the calling frame, kept in the log.
add_link(obj, link_name, link_hash, o, dir, st, lg) ==
    LET new_cid == PatchedObj(obj.hash, link_name, link_hash)
        patch(ok) == Call("patch", obj.hash, link_name, link_hash, dir, FALSE, ok)
        get(ok) == Call("get", new_cid, NoName, NoCid, dir, FALSE, ok)
    IN CASE o = "patch_fails" ->
              [ok |-> FALSE, obj |-> NoObj, store |-> st,
               log |-> Append(lg, patch(FALSE))]
         [] o = "get_fails" ->
              [ok |-> FALSE, obj |-> NoObj, store |-> st \cup {new_cid},
               log |-> Append(Append(lg, patch(TRUE)), get(FALSE))]
         [] OTHER ->
              [ok |-> TRUE, obj |-> IPFSObject_get(new_cid), store |-> st \cup {new_cid},
               log |-> Append(Append(lg, patch(TRUE)), get(TRUE))]

(***************************************************************************)
(* patch_root_object.                                                      *)
(***************************************************************************)
Frame(root_hash, root_dir) ==
    [root_hash |-> root_hash, root_dir |-> root_dir, root_obj |-> NoObj,
     todo |-> {}, pc |-> "get", local_link |-> NoName, new_cid |-> NoCid]

Top == stack[Len(stack)]
SetTop(f) == [stack EXCEPT ![Len(stack)] = f]
Running == status = "running" /\ stack # <<>>

\* the entry a frame's read_dir yields under a name
Entry(f, name) == Lookup(local_tree, Append(f.root_dir, name))

\* an Err that is dropped: the frame goes on
FailIgnored(st, lg) ==
    /\ store' = st
    /\ log' = lg
    /\ UNCHANGED <<local_tree, root0, store0, stack, status, result, warnings,
                   run, past, prober, track>>

\* the `?` operator on an Err: every frame returns the error
Fail(st, lg) ==
    /\ status' = "failed"
    /\ stack' = <<>>
    /\ store' = st
    /\ log' = lg
    /\ UNCHANGED <<local_tree, root0, store0, result, warnings, run, past,
                   prober, track>>

\* a loop whose iterator does not advance: the frame stays as it was
ContinueSameEntry(f, st, lg) ==
    /\ stack' = stack
    /\ store' = st
    /\ log' = lg
    /\ UNCHANGED <<local_tree, root0, store0, status, result, warnings, run, past,
                   prober, track>>

\* the loop goes on with the next entry
Continue(f, st, lg) ==
    /\ stack' = SetTop(f)
    /\ store' = st
    /\ log' = lg
    /\ UNCHANGED <<local_tree, root0, store0, status, result, warnings, run, past,
                   prober, track>>

\* lines 97-99: fetch the root object, open the directory
Get ==
    /\ Running
    /\ Top.pc = "get"
    /\ \E o \in {"ok", "get_fails", "read_dir_fails"} :
         LET lg == Append(log, Call("get", Top.root_hash, NoName, NoCid,
                                    Top.root_dir, FALSE, o # "get_fails"))
         IN IF o = "ok"
            THEN Continue([Top EXCEPT !.pc = "loop",
                                      !.root_obj = IPFSObject_get(Top.root_hash),
                                      !.todo = DOMAIN Lookup(local_tree, Top.root_dir).entries],
                          store, lg)
            ELSE Fail(store, lg)

\* line 100: the directory iterator yields an error
ReadDirEntryFails ==
    /\ Running
    /\ Top.pc = "loop"
    /\ Top.todo # {}
    /\ Fail(store, log)

\* line 104: the link of root_obj named like the local entry
HasLink(obj, name) == name \in DOMAIN obj.links

\* the skip rule with the test of the link inverted
SkipRuleNoLink(name, has_link) ==
    /\ Extension(name) # NoExt
    /\ Extension(name) \in {"ogg", "flac"}
    /\ ~has_link

\* lines 105-106: ogg and flac entries that have a link are left alone
SkipRule(name, has_link) ==
    /\ Extension(name) # NoExt
    /\ Extension(name) \in {"ogg", "flac"}
    /\ has_link

\* patching whether or not the address changed
ChangedAlways(new_cid, link_hash) == TRUE

\* lines 115, 129: patch only when the address changed
Changed(new_cid, link_hash) == new_cid # link_hash

\* lines 105-109: continue
SkipEntry ==
    /\ Running
    /\ Top.pc = "loop"
    /\ \E e \in Top.todo :
         /\ SkipRule(e, HasLink(Top.root_obj, e))
         /\ Continue([Top EXCEPT !.todo = @ \ {e}], store, log)

\* lines 114-118, 120-123, 133-136: upload, then add the link
\* (has_link: patch only if the address changed)
UploadAndLink(e, is_folder, has_link, link_name, o) ==
    LET f == Top
        a == ipfs_add(Append(f.root_dir, e), Entry(f, e), is_folder,
                      o # "add_fails", store, log)
        needed == ~has_link \/ Changed(a.cid, f.root_obj.links[e])
        p == add_link(f.root_obj, link_name, a.cid, o, f.root_dir, a.store, a.log)
    IN IF ~a.ok THEN Fail(a.store, a.log)
       ELSE IF ~needed
            THEN o = "ok" /\ Continue([f EXCEPT !.todo = @ \ {e}], a.store, a.log)
       ELSE IF ~p.ok THEN Fail(p.store, p.log)
       ELSE Continue([f EXCEPT !.todo = @ \ {e}, !.root_obj = p.obj], p.store, p.log)

Outcomes == {"ok", "add_fails", "patch_fails", "get_fails"}

\* lines 112-124: a local file
FileEntry ==
    /\ Running
    /\ Top.pc = "loop"
    /\ \E e \in Top.todo, o \in Outcomes :
         /\ ~SkipRule(e, HasLink(Top.root_obj, e))
         /\ IsFile(Entry(Top, e))
         /\ IF HasLink(Top.root_obj, e)
            THEN UploadAndLink(e, FALSE, TRUE, e, o)
            ELSE UploadAndLink(e, TRUE, FALSE, ToStringLossy(e), o)

\* lines 132-137: a local directory without a link
NewDirEntry ==
    /\ Running
    /\ Top.pc = "loop"
    /\ \E e \in Top.todo, o \in Outcomes :
         /\ ~SkipRule(e, HasLink(Top.root_obj, e))
         /\ IsDir(Entry(Top, e))
         /\ ~HasLink(Top.root_obj, e)
         /\ UploadAndLink(e, TRUE, FALSE, ToStringLossy(e), o)

\* a parent that patches the link of a directory before it recurses into it
RecurseEntryPatchFirst ==
    /\ Running
    /\ Top.pc = "loop"
    /\ \E e \in Top.todo :
         /\ ~SkipRule(e, HasLink(Top.root_obj, e))
         /\ IsDir(Entry(Top, e))
         /\ HasLink(Top.root_obj, e)
         /\ stack' = Append(SetTop([Top EXCEPT !.pc = "wait", !.local_link = e]),
                            Frame(Top.root_obj.links[e], Append(Top.root_dir, e)))
         /\ log' = Append(log, Call("patch", Top.root_obj.hash, e,
                                    Top.root_obj.links[e], Top.root_dir, FALSE, TRUE))
         /\ UNCHANGED <<local_tree, root0, store, store0, status, result,
                        warnings, run, past, prober, track>>

\* lines 126-128: a local directory with a link: recurse
RecurseEntry ==
    /\ Running
    /\ Top.pc = "loop"
    /\ \E e \in Top.todo :
         /\ ~SkipRule(e, HasLink(Top.root_obj, e))
         /\ IsDir(Entry(Top, e))
         /\ HasLink(Top.root_obj, e)
         /\ stack' = Append(SetTop([Top EXCEPT !.pc = "wait", !.local_link = e]),
                            Frame(Top.root_obj.links[e], Append(Top.root_dir, e)))
         /\ UNCHANGED <<local_tree, root0, store, store0, status, result, log,
                        warnings, run, past, prober, track>>

\* lines 112, 125: neither a file nor a directory
OtherEntry ==
    /\ Running
    /\ Top.pc = "loop"
    /\ \E e \in Top.todo :
         /\ ~SkipRule(e, HasLink(Top.root_obj, e))
         /\ ~IsFile(Entry(Top, e))
         /\ ~IsDir(Entry(Top, e))
         /\ Continue([Top EXCEPT !.todo = @ \ {e}], store, log)

\* lines 129-131: the recursive call returned new_cid
AfterRecurse ==
    /\ Running
    /\ Top.pc = "ret"
    /\ \E o \in {"ok", "patch_fails", "get_fails"} :
         LET f == Top
             e == f.local_link
             p == add_link(f.root_obj, e, f.new_cid, o, f.root_dir, store, log)
             g == [f EXCEPT !.pc = "loop", !.todo = @ \ {e},
                            !.local_link = NoName, !.new_cid = NoCid]
         IN IF ~Changed(f.new_cid, f.root_obj.links[e])
            THEN o = "ok" /\ Continue(g, store, log)
            ELSE IF ~p.ok THEN Fail(p.store, p.log)
            ELSE Continue([g EXCEPT !.root_obj = p.obj], p.store, p.log)

\* the warning loop with the test of exists() inverted
WarningsInverted(f) ==
    {[dir |-> f.root_dir, name |-> n] :
        n \in {m \in DOMAIN f.root_obj.links : Exists(Append(f.root_dir, m))}}

\* lines 144-149: the links of root_obj that do not exist locally
Warnings(f) ==
    {[dir |-> f.root_dir, name |-> n] :
        n \in {m \in DOMAIN f.root_obj.links : ~Exists(Append(f.root_dir, m))}}

\* lines 143-152: warn, then return the cid of root_obj
Finish ==
    /\ Running
    /\ Top.pc = "loop"
    /\ Top.todo = {}
    /\ warnings' = warnings \cup Warnings(Top)
    /\ IF Len(stack) = 1
       THEN /\ status' = "done"
            /\ result' = Cid(Top.root_obj)
            /\ stack' = <<>>
       ELSE /\ stack' = [SubSeq(stack, 1, Len(stack) - 1) EXCEPT
                            ![Len(stack) - 1].pc = "ret",
                            ![Len(stack) - 1].new_cid = Cid(Top.root_obj)]
            /\ UNCHANGED <<status, result>>
    /\ UNCHANGED <<local_tree, root0, store, store0, log, run, past, prober, track>>

\* the tool is run again, on the address the last run printed
Rerun ==
    /\ status = "done"
    /\ run < MaxRuns
    /\ past' = Append(past, [root |-> root0, result |-> result])
    /\ run' = run + 1
    /\ root0' = result
    /\ store0' = store
    /\ stack' = <<Frame(result, <<>>)>>
    /\ status' = "running"
    /\ result' = NoCid
    /\ log' = <<>>
    /\ warnings' = {}
    /\ UNCHANGED <<local_tree, store, prober, track>>

\* the concrete scenario of the specification (section 8): the root has
\* a.txt and sub; locally a.txt has new bytes, sub is unchanged, c.txt is new
ScenarioPublished ==
    MkDir([n \in {"a.txt", "sub"} |->
             IF n = "a.txt" THEN File("d1") ELSE Dir(MkDir([m \in {"a.txt"} |-> File("d1")]))])
ScenarioLocal ==
    MkDir([n \in {"a.txt", "sub", "c.txt"} |->
             CASE n = "a.txt" -> File("d2")
               [] n = "sub" -> Dir(MkDir([m \in {"a.txt"} |-> File("d1")]))
               [] n = "c.txt" -> File("d1")])

\* the pairs <<published tree, local tree>> a behaviour starts from
Scenarios ==
    {sc \in PublishedTrees \X LocalTrees : Diff(sc[1], sc[2]) <= MaxChanges}
        \cup {<<ScenarioPublished, ScenarioLocal>>}

Init ==
    \E sc \in Scenarios : LET pub == sc[1] loc == sc[2] IN
        /\ local_tree = loc
        /\ root0 = TreeObj(pub)
        /\ store = Reach(TreeObj(pub))
        /\ store0 = Reach(TreeObj(pub))
        /\ stack = <<Frame(TreeObj(pub), <<>>)>>
        /\ status = "running"
        /\ result = NoCid
        /\ log = <<>>
        /\ warnings = {}
        /\ run = 1
        /\ past = <<>>
        /\ prober = ProberIdle
        /\ track = TrackIdle

Next ==
    \/ Get
    \/ ReadDirEntryFails
    \/ SkipEntry
    \/ FileEntry
    \/ NewDirEntry
    \/ RecurseEntry
    \/ OtherEntry
    \/ AfterRecurse
    \/ Finish
    \/ Rerun

Spec == Init /\ [][Next]_vars

\* one step of a running patch_root_object
SyncStep ==
    \/ Get
    \/ ReadDirEntryFails
    \/ SkipEntry
    \/ FileEntry
    \/ NewDirEntry
    \/ RecurseEntry
    \/ OtherEntry
    \/ AfterRecurse
    \/ Finish

\* one run of patch_root_object: the process goes on as long as it has a
\* step to take (every command it runs returns, and the thread is not
\* stopped)
SpecLive == Init /\ [][SyncStep]_vars /\ WF_vars(SyncStep)


(***************************************************************************)
(* prime_public_gateways.                                                  *)
(***************************************************************************)
\* the gateway templates of lines 188-196, in order
gateways ==
    <<"dweb.link", "gateway.ipfs.io", "ipfs.io", "ipfs.overpi.com",
      "cf-ipfs.com", "jacl.tech">>

RECURSIVE SeqOf(_)
\* the elements of a set in the order the Vec of links holds them
SeqOf(S) ==
    IF S = {} THEN <<>>
    ELSE LET n == CHOOSE m \in S : TRUE IN <<n>> \o SeqOf(S \ {n})

\* the links of the fetched root, in order
Links(obj) == SeqOf(DOMAIN obj.links)

\* the url of the root on a gateway
BaseUrl == "<root>"

\* reqwest::blocking::get(url): "response" when the gateway answers (with
\* whatever status), "error" when the request fails
GetOutcomes == {"response", "error"}

\* one GET: the response's status is printed, an Err is returned with `?`
Request(url, o) ==
    [prober EXCEPT !.requests = Append(@, [gw |-> gateways[prober.gw],
                                           url |-> url, outcome |-> o]),
                   !.pc = IF o = "error" THEN "failed" ELSE "link"]

ProberStep(p, lg) ==
    /\ prober' = p
    /\ log' = lg
    /\ UNCHANGED <<local_tree, root0, store, store0, stack, status, result,
                   warnings, run, past, track>>

\* lines 198-201: the two forms of the cid, the fetch of the root object
PrimeStart ==
    /\ prober.pc = "start"
    /\ \E o \in {"ok", "new_v0_fails", "get_fails"} :
         CASE o = "ok" ->
                ProberStep([prober EXCEPT !.pc = "gateway", !.gw = 1,
                                          !.ipfs_root = IPFSObject_get(prober.root_hash)],
                           Append(log, Call("get", prober.root_hash, NoName, NoCid,
                                            <<>>, FALSE, TRUE)))
           [] o = "get_fails" ->
                ProberStep([prober EXCEPT !.pc = "failed"],
                           Append(log, Call("get", prober.root_hash, NoName, NoCid,
                                            <<>>, FALSE, FALSE)))
           [] OTHER -> ProberStep([prober EXCEPT !.pc = "failed"], log)

\* lines 203-210: the GET of the root on the next gateway
PrimeGateway ==
    /\ prober.pc = "gateway"
    /\ prober.gw <= Len(gateways)
    /\ \E o \in GetOutcomes :
         ProberStep([Request(BaseUrl, o) EXCEPT !.link = 1], log)

\* lines 212-217: the GET of the next link on the gateway
PrimeLink ==
    /\ prober.pc = "link"
    /\ prober.link <= Len(Links(prober.ipfs_root))
    /\ \E o \in GetOutcomes :
         ProberStep([Request(Links(prober.ipfs_root)[prober.link], o)
                        EXCEPT !.link = @ + 1], log)

\* the inner loop is over: the next gateway
PrimeNextGateway ==
    /\ prober.pc = "link"
    /\ prober.link > Len(Links(prober.ipfs_root))
    /\ ProberStep([prober EXCEPT !.pc = "gateway", !.gw = @ + 1, !.link = 0], log)

\* line 220: Ok(())
PrimeReturn ==
    /\ prober.pc = "gateway"
    /\ prober.gw > Len(gateways)
    /\ ProberStep([prober EXCEPT !.pc = "done"], log)

\* prime_public_gateways is called with the address of a published tree
InitProber ==
    \E t \in PublishedTrees :
        /\ local_tree = NoEntries
        /\ root0 = TreeObj(t)
        /\ store = Reach(TreeObj(t))
        /\ store0 = Reach(TreeObj(t))
        /\ stack = <<>>
        /\ status = "idle"
        /\ result = NoCid
        /\ log = <<>>
        /\ warnings = {}
        /\ run = 1
        /\ past = <<>>
        /\ prober = [ProberIdle EXCEPT !.pc = "start", !.root_hash = TreeObj(t)]
        /\ track = TrackIdle

NextProber ==
    \/ PrimeStart
    \/ PrimeGateway
    \/ PrimeLink
    \/ PrimeNextGateway
    \/ PrimeReturn

SpecProber == InitProber /\ [][NextProber]_vars


(***************************************************************************)
(* Track::from_inner (src/src/types.rs).  A file's metadata is            *)
(* [ok, len]; the cached track is an Option, `some` telling Some from      *)
(* None.                                                                   *)
(***************************************************************************)
Sizes == 0..MaxBytes

\* std::fs::metadata(path).ok(): the length of a file that is there
Metadata == {NoMetadata} \cup {[ok |-> TRUE, len |-> n] : n \in Sizes}

\* the cached tracks
Tracks ==
    {[some |-> TRUE, flac_bytes |-> f, ogg_bytes |-> o, mp3_bytes |-> m,
      media_info |-> "cached"] : f \in Sizes, o \in Sizes, m \in Sizes}

\* ondisk_root.and_then(|p| std::fs::metadata(p.join(file)).ok())
OnDisk(ondisk_root, md) == IF ondisk_root /\ md.ok THEN md ELSE NoMetadata

\* MediaInfo::new of the flac file (src/src/lib.rs): an Err when the path
\* does not exist, or when mediainfo gives no audio track (mediainfo_ok)
MediaInfo_new(md, mediainfo_ok) == md.ok /\ mediainfo_ok

\* Track::from_inner: the track built, or a panic
from_inner(t, mediainfo_ok) ==
    LET flac == OnDisk(t.ondisk_root, t.flac_md)
        ogg == OnDisk(t.ondisk_root, t.ogg_md)
        mp3 == IF t.mp3 THEN OnDisk(t.ondisk_root, t.mp3_md) ELSE NoMetadata
        flac_panics == ~flac.ok /\ ~t.cache.some
        media_info_panics ==
            IF t.ondisk_root THEN ~MediaInfo_new(t.flac_md, mediainfo_ok)
            ELSE ~t.cache.some
        flac_bytes == IF flac.ok THEN flac.len ELSE t.cache.flac_bytes
        ogg_bytes == IF ogg.ok THEN ogg.len
                     ELSE IF t.cache.some THEN t.cache.ogg_bytes ELSE 0
        mp3_bytes == IF mp3.ok THEN mp3.len
                     ELSE IF t.cache.some THEN t.cache.ogg_bytes ELSE 0
        media_info == IF t.ondisk_root THEN "mediainfo" ELSE t.cache.media_info
    IN IF flac_panics \/ media_info_panics
       THEN [panic |-> TRUE, track |-> NoTrack]
       ELSE [panic |-> FALSE,
             track |-> [some |-> TRUE, flac_bytes |-> flac_bytes,
                        ogg_bytes |-> ogg_bytes, mp3_bytes |-> mp3_bytes,
                        media_info |-> media_info]]

\* the call of Track::from_inner
FromInner ==
    /\ track.pc = "call"
    /\ \E mediainfo_ok \in BOOLEAN :
         LET r == from_inner(track, mediainfo_ok)
         IN track' = [track EXCEPT !.pc = IF r.panic THEN "panic" ELSE "ok",
                                   !.result = r.track]
    /\ UNCHANGED <<local_tree, root0, store, store0, stack, status, result, log,
                   warnings, run, past, prober>>

\* Track::from_inner is called with or without a folder on disk, with or
\* without an mp3 name, whatever files are there, with or without a cache
InitTrack ==
    /\ local_tree = NoEntries
    /\ root0 = NoCid
    /\ store = {}
    /\ store0 = {}
    /\ stack = <<>>
    /\ status = "idle"
    /\ result = NoCid
    /\ log = <<>>
    /\ warnings = {}
    /\ run = 1
    /\ past = <<>>
    /\ prober = ProberIdle
    /\ \E ondisk_root \in BOOLEAN, mp3 \in BOOLEAN,
          flac_md \in Metadata, ogg_md \in Metadata, mp3_md \in Metadata,
          cache \in {NoTrack} \cup Tracks :
         track = [pc |-> "call", ondisk_root |-> ondisk_root, mp3 |-> mp3,
                  flac_md |-> flac_md, ogg_md |-> ogg_md, mp3_md |-> mp3_md,
                  cache |-> cache, result |-> NoTrack]

NextTrack == FromInner

SpecTrack == InitTrack /\ [][NextTrack]_vars


(***************************************************************************)
(* Properties.                                                             *)
(***************************************************************************)
\* the patch commands (add_link calls) of a log
Patches(lg) == {i \in DOMAIN lg : lg[i].op = "patch"}
\* the upload commands of a log
Adds(lg) == {i \in DOMAIN lg : lg[i].op = "add"}
\* the fetch commands of a log
Gets(lg) == {i \in DOMAIN lg : lg[i].op = "get"}

Done == status = "done"

\* C1: a second run over the unchanged local tree, started from the address
\* the first run returned, returns that address again and issues no patch
C1_Idempotent ==
    (Done /\ run > 1) =>
        /\ result = past[Len(past)].result
        /\ Patches(log) = {}


NoTree == [data |-> "dir", links |-> NoLinks]

\* the skip rule of the specification: a file of an immutable-once-published
\* extension that has a link in the object synchronized against
Exempted(es, n, old) ==
    /\ IsFile(es[n])
    /\ Extension(n) \in {"ogg", "flac"}
    /\ n \in DOMAIN old.links

RECURSIVE Mirrors(_, _, _)
\* object new mirrors the directory es, synchronized against object old;
\* the link of an entry is looked for under the entry's name as a string
Mirrors(new, old, es) ==
    \A n \in DOMAIN es :
        LET ln == ToStringLossy(n)
        IN /\ (IsFile(es[n]) /\ ~Exempted(es, n, old)) =>
                 /\ ln \in DOMAIN new.links
                 /\ new.links[ln] = FileObj(es[n].data)
           /\ IsDir(es[n]) =>
                 /\ ln \in DOMAIN new.links
                 /\ Mirrors(new.links[ln],
                            IF n \in DOMAIN old.links THEN old.links[n] ELSE NoTree,
                            es[n].entries)

\* C2: the object a successful sync returns mirrors the local tree
C2_Mirrors == Done => Mirrors(result, root0, local_tree)


RECURSIVE FilePaths(_)
\* the paths of the files below a directory
FilePaths(es) ==
    {<<n>> : n \in {m \in DOMAIN es : IsFile(es[m])}}
        \cup UNION {{<<n>> \o q : q \in FilePaths(es[n].entries)} :
                       n \in {m \in DOMAIN es : IsDir(es[m])}}

RECURSIVE ReplaceAt(_, _, _)
\* directory es with the entry at path p replaced
ReplaceAt(es, p, entry) ==
    IF Len(p) = 1 THEN [es EXCEPT ![p[1]] = entry]
    ELSE [es EXCEPT ![p[1]] = Dir(ReplaceAt(es[p[1]].entries, Tail(p), entry))]

\* the object at root0 was published from the local tree as it was before
\* the bytes of the file at path p changed (nothing else differs)
OnlyLeafChanged(p) ==
    \E d \in Data \ {Lookup(local_tree, p).data} :
        root0 = TreeObj(ReplaceAt(local_tree, p, File(d)))

IsPrefix(q, p) == Len(q) <= Len(p) /\ SubSeq(p, 1, Len(q)) = q

\* C3: when exactly one leaf file changed (a file the skip rule does not
\* exempt), the patches are exactly one per ancestor directory of the leaf,
\* and no patch is made anywhere else
C3_PatchesEqualDepth ==
    Done =>
        \A p \in FilePaths(local_tree) :
            (OnlyLeafChanged(p) /\ Extension(p[Len(p)]) \notin {"ogg", "flac"}) =>
                /\ Cardinality(Patches(log)) = Len(p)
                /\ \A i \in Patches(log) :
                      Len(log[i].path) < Len(p) /\ IsPrefix(log[i].path, p)


(***************************************************************************)
(* One loop iteration seen as a step: the innermost frame's iterator moves *)
(* past entry e.                                                           *)
(***************************************************************************)
StepsOver(e) ==
    /\ Running
    /\ Top.pc \in {"loop", "ret"}
    /\ e \in Top.todo
    /\ Len(stack') = Len(stack)
    /\ stack'[Len(stack)].pc = "loop"
    /\ stack'[Len(stack)].todo = Top.todo \ {e}

\* the commands the step issued
NewCalls == SubSeq(log', Len(log) + 1, Len(log'))

\* the address the iteration computes for entry e: the upload of a file or
\* of a new directory, the result of the recursive call for a matched one
Fresh(e) ==
    IF Top.pc = "ret" THEN Top.new_cid
    ELSE IF IsFile(Entry(Top, e)) THEN FileObj(Entry(Top, e).data)
    ELSE TreeObj(Entry(Top, e).entries)

\* the step patches the frame's root with the fresh address of e
PatchIssued(e) ==
    \E i \in DOMAIN NewCalls :
        /\ NewCalls[i].op = "patch"
        /\ NewCalls[i].child = Fresh(e)
        /\ NewCalls[i].path = Top.root_dir

NoPatchIssued == \A i \in DOMAIN NewCalls : NewCalls[i].op # "patch"

\* the decision the specification describes for entry e
PatchExpected(e) ==
    \/ ~HasLink(Top.root_obj, e)
    \/ Fresh(e) # Top.root_obj.links[e]

InScenario ==
    /\ run = 1
    /\ local_tree = ScenarioLocal
    /\ root0 = TreeObj(ScenarioPublished)

\* the concrete scenario: one patch for a.txt, one for c.txt, both at the
\* root, none under sub, and a new root address
ScenarioOutcome ==
    (Done /\ InScenario) =>
        /\ Cardinality(Patches(log)) = 2
        /\ {log[i].name : i \in Patches(log)} = {"a.txt", "c.txt"}
        /\ \A i \in Patches(log) : log[i].path = <<>>
        /\ result # root0

Without(es, n) == [m \in DOMAIN es \ {n} |-> es[m]]

\* C5: a new local file without a remote counterpart, nothing else being
\* different, is uploaded once and causes exactly one patch, which adds a
\* link of the file's name; the returned address is a new one
C5_NewFile ==
    Done =>
        \A n \in DOMAIN local_tree :
            (IsFile(local_tree[n]) /\ root0 = TreeObj(Without(local_tree, n))) =>
                /\ Cardinality({i \in Adds(log) : log[i].path = <<n>>}) = 1
                /\ Cardinality(Patches(log)) = 1
                /\ \A i \in Patches(log) :
                      /\ log[i].name = n
                      /\ log[i].child = FileObj(local_tree[n].data)
                /\ result # root0

RECURSIVE Faithful(_)
\* every entry is a file or a directory whose name is a link name
Faithful(es) ==
    \A n \in DOMAIN es :
        /\ IsFile(es[n]) \/ IsDir(es[n])
        /\ ToStringLossy(n) = n
        /\ IsDir(es[n]) => Faithful(es[n].entries)

\* object o without its link ln
RemoveLink(o, ln) ==
    [data |-> o.data, links |-> [m \in DOMAIN o.links \ {ln} |-> o.links[m]]]

\* link ln of the object at root0 has no local counterpart, and that is the
\* only difference between the object and the local tree
OnlyDrift(ln) ==
    /\ ln \in DOMAIN root0.links
    /\ ln \notin DOMAIN local_tree
    /\ Faithful(local_tree)
    /\ RemoveLink(root0, ln) = TreeObj(local_tree)

\* C6: when the only difference is a remote link without a local
\* counterpart, sync warns about that link, changes nothing in the store
\* (no patch, no new object) and returns the address it was given
C6_DriftOnly ==
    Done =>
        \A ln \in DOMAIN root0.links :
            OnlyDrift(ln) =>
                /\ [dir |-> <<>>, name |-> ln] \in warnings
                /\ Patches(log) = {}
                /\ store = store0
                /\ result = root0

C6_Witness ==
    /\ Done
    /\ \E ln \in DOMAIN root0.links : OnlyDrift(ln)
    /\ local_tree # NoEntries
    /\ warnings # {}

RECURSIVE ObjAt(_, _)
\* the object a path of link names leads to
ObjAt(o, q) ==
    IF q = <<>> THEN o
    ELSE IF Head(q) \in DOMAIN o.links THEN ObjAt(o.links[Head(q)], Tail(q))
    ELSE NoCid

Front(p) == SubSeq(p, 1, Len(p) - 1)
Last(p) == p[Len(p)]

\* the file at path p has an immutable-once-published extension and a link
\* of its name in the object its directory is synchronized against
Published(p) ==
    /\ IsFile(Lookup(local_tree, p))
    /\ Extension(Last(p)) \in {"ogg", "flac"}
    /\ Last(p) \in DOMAIN ObjAt(root0, Front(p)).links

\* C7: an ogg or flac file that already has a remote link is never uploaded
\* and never patched, whatever its local bytes, and the returned object
\* keeps the link's target
C7_SkipRule ==
    \A p \in FilePaths(local_tree) :
        Published(p) =>
            /\ \A i \in Adds(log) : log[i].path # p
            /\ \A i \in Patches(log) :
                  ~(log[i].path = Front(p) /\ log[i].name = Last(p))
            /\ Done => ObjAt(result, p) = ObjAt(root0, p)

\* the local bytes of a published ogg file differ from the remote ones
C7_Witness ==
    /\ Done
    /\ \E p \in FilePaths(local_tree) :
          /\ Published(p)
          /\ ObjAt(root0, p) # FileObj(Lookup(local_tree, p).data)

\* the successful patches a log holds for the frame of directory q
PatchesAt(lg, q) == {i \in Patches(lg) : lg[i].path = q /\ lg[i].ok}

Max(S) == CHOOSE x \in S : \A y \in S : y <= x

\* the address of the final current root of the frame of directory q, which
\* was entered with root_hash: the object made by the frame's last patch,
\* root_hash itself when the frame made none
FinalRoot(q, root_hash) ==
    IF PatchesAt(log, q) = {} THEN root_hash
    ELSE LET c == log[Max(PatchesAt(log, q))]
         IN PatchedObj(c.cid, c.name, c.child)

\* C8: every call of sync, the recursive ones included, returns the address
\* of the final current root of its frame, which is the address it was given
\* when the frame applied no patch
C8_ReturnsCurrentRoot ==
    /\ Done => result = FinalRoot(<<>>, root0)
    /\ \A k \in DOMAIN stack :
          stack[k].pc = "ret" =>
              stack[k].new_cid =
                  FinalRoot(Append(stack[k].root_dir, stack[k].local_link),
                            stack[k].root_obj.links[stack[k].local_link])

\* a top-level call returned after patching, and one returned its argument
C8_Witness ==
    /\ Done
    /\ PatchesAt(log, <<>>) # {}
    /\ \E i \in Gets(log) : Len(log[i].path) = 1 /\ PatchesAt(log, log[i].path) = {}


\* C9: a failed call is the last call of the run (no retry, no later call),
\* the run is over with an error, and no address is returned
C9_FailureAborts ==
    /\ \A i \in DOMAIN log :
          ~log[i].ok => (i = Len(log) /\ status = "failed")
    /\ status = "failed" =>
          /\ result = NoCid
          /\ stack = <<>>
          /\ ~ENABLED Next

\* a call failed inside a recursive call, after other calls succeeded
C9_Witness ==
    /\ status = "failed"
    /\ Len(log) > 2
    /\ ~log[Len(log)].ok
    /\ Len(log[Len(log)].path) > 0

\* the objects the successful uploads of a step put into the store
Uploaded(calls) ==
    UNION {Reach(calls[i].cid) :
             i \in {j \in DOMAIN calls : calls[j].op = "add" /\ calls[j].ok}}

\* C10: a step of the synchronizer that fails leaves the store as it was
\* before the failing operation (ipfs_add or add_link): the store holds what
\* it held plus what the uploads that succeeded before it added
C10_FailureLeavesStore ==
    [][status' = "failed" => store' = store \cup Uploaded(NewCalls)]_vars

\* an object that has the shape of a directory
DirectoryShaped(o) == o.data = "dir"

\* C11: IPFSObject::get succeeds only for the address of a directory-shaped
\* object: every fetch that returned an object was asked for a directory
C11_GetFailsOnNonDirectory ==
    \A i \in Gets(log) : log[i].ok => DirectoryShaped(log[i].cid)

\* the GETs a finished prober has issued for a gateway and a url
RequestsFor(g, url) ==
    {i \in DOMAIN prober.requests :
        prober.requests[i].gw = g /\ prober.requests[i].url = url}

\* C12: a GET that fails never makes the prober return an error, and a
\* prober that returned has issued, for every gateway, one GET for the root
\* and one GET for every link of the root
C12_ProberNeverFails ==
    /\ \A i \in DOMAIN prober.requests :
          prober.requests[i].outcome = "error" => prober.pc # "failed"
    /\ prober.pc = "done" =>
          \A k \in DOMAIN gateways :
              \A url \in {BaseUrl} \cup DOMAIN prober.ipfs_root.links :
                  Cardinality(RequestsFor(gateways[k], url)) = 1

Min(S) == CHOOSE x \in S : \A y \in S : x <= y

\* the address the frame of directory q fetched when it was entered: the
\* first fetch of the frame
Fetched(q) == log[Min({j \in Gets(log) : log[j].path = q})].cid

\* the address patch i of the log has to target: the address its frame
\* fetched when the frame made no successful patch before, the address the
\* frame's last successful patch before i returned otherwise
CurrentRootBefore(i) ==
    LET q == log[i].path
        before == {j \in PatchesAt(log, q) : j < i}
    IN IF before = {} THEN Fetched(q)
       ELSE LET c == log[Max(before)] IN PatchedObj(c.cid, c.name, c.child)

\* C13: every patch targets the current root of its frame (the fetched
\* address first, then the address the preceding successful patch of the
\* frame returned), and the current root of a frame is the object of its
\* last patch, links and address
C13_PatchTargetsCurrentRoot ==
    /\ \A i \in Patches(log) : log[i].cid = CurrentRootBefore(i)
    /\ \A k \in DOMAIN stack :
          stack[k].pc # "get" =>
              stack[k].root_obj =
                  IPFSObject_get(FinalRoot(stack[k].root_dir, stack[k].root_hash))

\* a frame is at its third entry after two successful patches
C13_Witness ==
    /\ Running
    /\ Top.pc = "loop"
    /\ Cardinality(PatchesAt(log, Top.root_dir)) >= 2
    /\ Top.root_obj.hash # Top.root_hash

\* the directory of the frame that issued a call
Owner(c) == IF c.op = "add" THEN Front(c.path) ELSE c.path

\* the calls of the recursive sync of directory q, its own recursive calls
\* included
Inside(q) == {i \in DOMAIN log : IsPrefix(q, Owner(log[i]))}

\* the directories the run has recursed into
Recursed == {log[j].path : j \in {i \in Gets(log) : Len(log[i].path) > 0}}

\* C14: the calls of the recursive sync of a subdirectory are consecutive
\* (no call of the parent or of a sibling comes between them), the parent's
\* patch for the subdirectory comes after all of them, and while the
\* recursive call runs the parent waits at that entry
C14_Sequential ==
    /\ \A q \in Recursed :
          /\ Cardinality(Inside(q)) = Max(Inside(q)) - Min(Inside(q)) + 1
          /\ \A j \in Patches(log) :
                (log[j].path = Front(q) /\ log[j].name = Last(q))
                    => j = Max(Inside(q)) + 1
    /\ \A k \in 1..(Len(stack) - 1) :
          /\ stack[k].pc = "wait"
          /\ stack[k].local_link \in stack[k].todo
          /\ stack[k + 1].root_dir = Append(stack[k].root_dir, stack[k].local_link)

\* a run has patched inside a subdirectory, then patched the subdirectory
\* into its parent, then gone on with a sibling
C14_Witness ==
    /\ Done
    /\ \E q \in Recursed :
          /\ PatchesAt(log, q) # {}
          /\ \E j \in PatchesAt(log, Front(q)) :
                log[j].name = Last(q) /\ j + 2 < Len(log)

\* C15: every local directory that has a link of its name in the object
\* synchronized against is recursed into with the link's target, whatever
\* its extension, and the returned object links it to what the recursive
\* sync returned
C15_DirectoriesAlwaysRecursed ==
    Done =>
        \A n \in DOMAIN local_tree :
            (IsDir(local_tree[n]) /\ n \in DOMAIN root0.links) =>
                /\ \E j \in Gets(log) :
                      log[j].path = <<n>> /\ log[j].cid = root0.links[n]
                /\ n \in DOMAIN result.links
                /\ result.links[n] = FinalRoot(<<n>>, root0.links[n])

RECURSIVE SyncAll(_, _, _)
RECURSIVE StepAll(_, _, _)
\* the addresses a successful sync can return for the current root cur and
\* the directory es, the entries todo being still to be enumerated, over all
\* orders of enumeration
SyncAll(cur, es, todo) ==
    IF todo = {} THEN {cur}
    ELSE UNION {UNION {SyncAll(nxt, es, todo \ {e}) : nxt \in StepAll(cur, es, e)} :
                  e \in todo}

\* the current roots one loop iteration can leave for entry e
StepAll(cur, es, e) ==
    LET has_link == e \in DOMAIN cur.links
        replaced(c) == IF Changed(c, cur.links[e]) THEN PatchedObj(cur, e, c) ELSE cur
    IN IF SkipRule(e, has_link) THEN {cur}
       ELSE IF IsFile(es[e])
            THEN IF has_link THEN {replaced(FileObj(es[e].data))}
                 ELSE {PatchedObj(cur, ToStringLossy(e), FileObj(es[e].data))}
       ELSE IF IsDir(es[e])
            THEN IF has_link
                 THEN {replaced(c) :
                         c \in SyncAll(cur.links[e], es[e].entries, DOMAIN es[e].entries)}
                 ELSE {PatchedObj(cur, ToStringLossy(e), TreeObj(es[e].entries))}
       ELSE {cur}

\* C16: the address a sync returns is the only address any order of
\* enumeration can produce for the same remote object and local tree
C16_OrderIndependent ==
    Done => SyncAll(root0, local_tree, DOMAIN local_tree) = {result}

\* the link names the frame of directory q has warned about
WarnedAt(q) == {w.name : w \in {v \in warnings : v.dir = q}}

\* the links of the object a frame fetched that have no local entry
OriginalDrift(q, fetched) ==
    {n \in DOMAIN fetched.links : ~Exists(Append(q, n))}

\* the step in which a frame is past its last entry and emits its warnings
WarningStep == Running /\ Top.pc = "loop" /\ Top.todo = {}

\* C17: every frame warns about exactly the links of the object it fetched
\* that have no local entry, and the step that emits the warnings issues no
\* store call and returns the address of the frame's current root
C17_WarnsOriginalDrift ==
    /\ [](Done => /\ WarnedAt(<<>>) = OriginalDrift(<<>>, root0)
                  /\ \A q \in Recursed : WarnedAt(q) = OriginalDrift(q, Fetched(q)))
    /\ [][WarningStep => /\ log' = log
                         /\ store' = store
                         /\ Done' => result' = Top.root_obj.hash]_vars

\* C18: a local file is uploaded without the recursive flag, whether it has
\* a link or not; the recursive upload is issued only for a local directory
\* without a link
C18_UploadKind ==
    \A i \in Adds(log) :
        /\ IsFile(Lookup(local_tree, log[i].path)) => ~log[i].folder
        /\ log[i].folder =>
              /\ IsDir(Lookup(local_tree, log[i].path))
              /\ Last(log[i].path) \notin DOMAIN Fetched(Front(log[i].path)).links

\* every address the run has used so far is the address of a stored object
UsedAddressesExist ==
    /\ root0 \in store
    /\ \A i \in Patches(log) : log[i].cid \in store /\ log[i].child \in store
    /\ \A k \in DOMAIN stack :
          /\ stack[k].root_hash \in store
          /\ stack[k].pc # "get" => stack[k].root_obj.hash \in store
          /\ stack[k].pc = "ret" => stack[k].new_cid \in store
    /\ Done => result \in store

\* C19: the parent and the child of every patch, every address recursed
\* into and the address returned are addresses of objects the store holds,
\* and no step takes an object out of the store (the object of the address
\* the run was given stays as it is)
C19_AddressesExist ==
    /\ []UsedAddressesExist
    /\ [][store \subseteq store']_vars

\* a run has returned a new address after patching with an address it
\* uploaded and with one a recursive call returned
C19_Witness ==
    /\ Done
    /\ result \notin store0
    /\ \E i, j \in PatchesAt(log, <<>>) :
          /\ \E k \in Adds(log) : log[k].cid = log[i].child /\ log[i].child \notin store0
          /\ \E q \in Recursed : Len(q) = 1 /\ log[j].name = Last(q)
                                   /\ log[j].child \notin store0

\* the links of the object the frame of directory q fetched whose name is
\* the name of no local entry of q
Unmatched(q, fetched) ==
    {ln \in DOMAIN fetched.links : Lookup(local_tree, Append(q, ln)) = Absent}

\* C20: every link of a fetched object whose name is the name of no local
\* entry is in the object the run returns, with the target it had
C20_KeepsUnmatchedLinks ==
    Done =>
        \A q \in {<<>>} \cup Recursed :
            LET fetched == IF q = <<>> THEN root0 ELSE Fetched(q)
            IN \A ln \in Unmatched(q, fetched) :
                  ObjAt(result, Append(q, ln)) = fetched.links[ln]

RECURSIVE Steps(_)
\* an upper bound of the steps the sync of a directory takes: the fetch, the
\* return, one step per entry, and for a directory entry the recursion into
\* it and the patch after it
Steps(es) ==
    LET Cost(n) == IF IsDir(es[n]) THEN 2 + Steps(es[n].entries) ELSE 1
        RECURSIVE Sum(_)
        Sum(S) == IF S = {} THEN 0
                  ELSE LET n == CHOOSE m \in S : TRUE IN Cost(n) + Sum(S \ {n})
    IN 2 + Sum(DOMAIN es)

\* the steps a frame has left, the recursive call it waits for not counted
FrameLeft(f) ==
    LET es == Lookup(local_tree, f.root_dir).entries
        Cost(n) == IF IsDir(es[n]) THEN 2 + Steps(es[n].entries) ELSE 1
        RECURSIVE Sum(_)
        Sum(S) == IF S = {} THEN 0
                  ELSE LET n == CHOOSE m \in S : TRUE IN Cost(n) + Sum(S \ {n})
    IN CASE f.pc = "get" -> Steps(es)
         [] f.pc = "loop" -> 1 + Sum(f.todo)
         [] OTHER -> 2 + Sum(f.todo \ {f.local_link})

RECURSIVE StepsLeft(_)
\* the steps a stack of frames has left
StepsLeft(st) == IF st = <<>> THEN 0 ELSE FrameLeft(Head(st)) + StepsLeft(Tail(st))

\* every frame but the outermost is the sync of a local directory, one level
\* below its caller, against the target of the caller's link of its name
DescendsOneLevel ==
    \A k \in 2..Len(stack) :
        LET parent == stack[k - 1]
        IN /\ stack[k].root_dir = Append(parent.root_dir, parent.local_link)
           /\ Len(stack[k].root_dir) = k - 1
           /\ IsDir(Lookup(local_tree, stack[k].root_dir))
           /\ HasLink(parent.root_obj, parent.local_link)
           /\ stack[k].root_hash = parent.root_obj.links[parent.local_link]
           /\ stack[k].root_hash \in Reach(parent.root_obj.hash) \ {parent.root_obj.hash}

\* the uploads and the patches among the commands of a step
UploadsOf(calls) == {i \in DOMAIN calls : calls[i].op = "add"}
PatchesOf(calls) == {i \in DOMAIN calls : calls[i].op = "patch"}

\* a step issues at most one upload and at most one patch, and a step that
\* issues one is over with its entry: the frame's iterator moves past it, or
\* the run fails
OncePerEntry ==
    /\ Cardinality(UploadsOf(NewCalls)) <= 1
    /\ Cardinality(PatchesOf(NewCalls)) <= 1
    /\ (UploadsOf(NewCalls) \cup PatchesOf(NewCalls)) # {} =>
          \/ status' = "failed"
          \/ \E e \in Names : StepsOver(e)

\* C21: a running sync ends (with Ok or with Err): every step takes the
\* number of steps left down, recursion goes one level down in the local
\* tree and in the remote links, and an entry gets at most one upload and at
\* most one patch
C21_Terminates ==
    /\ (status = "running") ~> (status # "running")
    /\ [][Running => (SyncStep => StepsLeft(stack') < StepsLeft(stack))]_vars
    /\ []DescendsOneLevel
    /\ [][Running => OncePerEntry]_vars

\* a run is over after it went down into a subdirectory, uploaded and
\* patched there and patched the subdirectory into the root
C21_Witness ==
    /\ Done
    /\ run = 1
    /\ \E q \in Recursed :
          /\ \E i \in Adds(log) : Front(log[i].path) = q
          /\ PatchesAt(log, q) # {}
          /\ PatchesAt(log, <<>>) # {}

\* the file cannot be read from disk: no folder on disk, or no such file
Unreadable(md) == ~OnDisk(track.ondisk_root, md).ok

\* C22: in the track Track::from_inner returns, each of flac_bytes,
\* ogg_bytes and mp3_bytes whose file cannot be read from disk is the field
\* of the same name of the cached track when there is one, and ogg_bytes and
\* mp3_bytes are 0 when there is none
C22_CacheFallback ==
    track.pc = "ok" =>
        /\ track.cache.some =>
              /\ Unreadable(track.flac_md) =>
                    track.result.flac_bytes = track.cache.flac_bytes
              /\ Unreadable(track.ogg_md) =>
                    track.result.ogg_bytes = track.cache.ogg_bytes
              /\ Unreadable(track.mp3_md) =>
                    track.result.mp3_bytes = track.cache.mp3_bytes
        /\ ~track.cache.some =>
              /\ Unreadable(track.ogg_md) => track.result.ogg_bytes = 0
              /\ Unreadable(track.mp3_md) => track.result.mp3_bytes = 0

====
